---- MODULE Spec2Model ----
(***************************************************************************)
(* Model of scripts/pack_gltf.py: the glTF packer that dumps one skinned,  *)
(* animated mesh into headerless little-endian binary files.               *)
(*                                                                         *)
(* Conventions.  glTF indices are 0-based, TLA+ sequences 1-based: At(s,i) *)
(* is Python's s[i], a negative i counting from the end.  A Python dict is a function whose DOMAIN is its key  *)
(* set, so dict.get(k, d) is Get(d_, k, d).  Every file is the sequence of *)
(* its bytes (0..255); the directory `files` is a function from the names  *)
(* of the files that exist to their contents.  A raised exception stops    *)
(* main: pc = "failed", err = the exception class and the source line that *)
(* raised it.                                                              *)
(*                                                                         *)
(* TLC's integers are 32-bit signed, so an unsigned 32-bit word w >= 2^31  *)
(* is held as w - 2^32 (its two's complement reading): the sentinel        *)
(* 0xffffffff of line 57 is NoParent = -1, and PackI gives its four bytes  *)
(* ff ff ff ff.  Python's None (what animationTypeVal returns by falling   *)
(* off its end) is NoneVal, a value no field of a document and no path     *)
(* enum takes; struct.pack('<I', None) raises struct.error.                *)
(***************************************************************************)
EXTENDS Integers, Sequences, FiniteSets, TLC

(* ------------------------------ bounds -------------------------------- *)
MaxMeshes == 2
MaxPrims == 2
MaxAnims == 2
MaxSkins == 2
MaxNodes == 3
MaxEdges == 2
MaxChannels == 2
MaxJoints == 2
MaxBufLen == 12

(* ------------------------- program constants -------------------------- *)
FLOAT == 5126
UNSIGNED_SHORT == 5123
UNSIGNED_BYTE == 5121
NoParent == -1
NoneVal == -2

(* ----------------------------- helpers -------------------------------- *)
\* Python's list indexing: s[i] is defined for -len(s) <= i < len(s), a
\* negative i counting from the end; any other i raises IndexError.
InRange(s, i) == i \in -Len(s)..Len(s) - 1

Pos(s, i) == IF i < 0 THEN Len(s) + i + 1 ELSE i + 1

At(s, i) == s[Pos(s, i)]

Get(d, k, default) == IF k \in DOMAIN d THEN d[k] ELSE default

Min(a, b) == IF a < b THEN a ELSE b

RECURSIVE Flatten(_)
Flatten(ss) == IF ss = <<>> THEN <<>> ELSE Head(ss) \o Flatten(Tail(ss))

\* struct.pack('<I', v): four bytes, least significant first (% and \div
\* round down, so a word held as w - 2^32 gives the bytes of w); struct.error
\* when v is None.
CanPackI(v) == v # NoneVal

PackI(v) == << v % 256, (v \div 256) % 256, (v \div 65536) % 256,
               (v \div 16777216) % 256 >>

\* struct.pack('<f', x) for the values the documents carry: IEEE-754 single,
\* least significant byte first.
PackF(x) == CASE x = 0 -> <<0, 0, 0, 0>>
              [] x = 1 -> <<0, 0, 128, 63>>
              [] x = 2 -> <<0, 0, 0, 64>>
              [] x = -1 -> <<0, 0, 128, 191>>

\* struct.pack('<' + 'f'*len(xs), *xs)
PackFs(xs) == Flatten([j \in 1..Len(xs) |-> PackF(xs[j])])

\* in_file.seek(offs, 0) raises OSError for a negative offs, and
\* in_file.read(length) ValueError for a length below -1.
ReadError(offs, length) ==
    IF offs < 0 THEN "OSError" ELSE IF length < -1 THEN "ValueError" ELSE ""

\* in_file.seek(offs, 0); in_file.read(length): the bytes of the file from
\* offs on, at most length of them; all of them when length is -1.
ReadAt(content, offs, length) ==
    IF length < 0 THEN SubSeq(content, offs + 1, Len(content))
    ELSE SubSeq(content, offs + 1, Min(offs + length, Len(content)))

NoErr == [exc |-> "", line |-> 0]

Raise(exc, line) == [exc |-> exc, line |-> line]

\* "animations_{}.bin".format(i)
AnimationFile(i) == CASE i = 0 -> "animations_0.bin"
                      [] i = 1 -> "animations_1.bin"
                      [] i = 2 -> "animations_2.bin"
                      [] i = 3 -> "animations_3.bin"
                      [] i = 4 -> "animations_4.bin"

MeshFiles == <<"positions.bin", "normals.bin", "indices.bin",
               "vert_joints.bin", "vert_weights.bin">>

OutputNames == {MeshFiles[j] : j \in 1..5} \cup {"nodes.bin", "joint_info.bin"}
               \cup {AnimationFile(i) : i \in 0..4}

(* --------------------------- the documents ---------------------------- *)
\* The inputs of one run: the parsed guy.gltf and the directory it is run
\* in.  A base document of the supported subset, and families that vary one
\* part of it over everything the bounds allow.
SeqsUpTo(S, k) == UNION {[1..m -> S] : m \in 0..k}

EmptyDict == <<>>

ComponentTypes == {FLOAT, UNSIGNED_SHORT, UNSIGNED_BYTE}

ShapeTypes == {"SCALAR", "VEC3", "VEC4", "MAT4"}

Paths == {"translation", "rotation", "scale", "weights"}

Accessor(ct, t, bv, n) ==
    [componentType |-> ct, type |-> t, bufferView |-> bv, count |-> n]

BaseAccessors ==
    << Accessor(FLOAT, "VEC3", 0, 1),          \* 0 POSITION
       Accessor(FLOAT, "VEC3", 1, 1),          \* 1 NORMAL
       Accessor(UNSIGNED_SHORT, "SCALAR", 2, 1), \* 2 indices
       Accessor(UNSIGNED_BYTE, "VEC4", 3, 1),  \* 3 JOINTS_0
       Accessor(FLOAT, "VEC4", 4, 1),          \* 4 WEIGHTS_0
       Accessor(FLOAT, "SCALAR", 5, 2),        \* 5 keyframe times
       Accessor(FLOAT, "SCALAR", 6, 3),        \* 6 keyframe times
       Accessor(FLOAT, "VEC3", 7, 1),          \* 7 keyframe values
       Accessor(FLOAT, "VEC4", 8, 1),          \* 8 keyframe values
       Accessor(FLOAT, "MAT4", 9, 1) >>        \* 9 inverse bind matrices

BaseBufferViews ==
    [j \in 1..10 |-> [buffer |-> 0, byteOffset |-> j - 1, byteLength |-> 2]]

BufferBytes(n) == [j \in 1..n |-> 10 + j]

BaseDisk == "guy.bin" :> BufferBytes(MaxBufLen)

BasePrimitive ==
    [attributes |-> [POSITION |-> 0, NORMAL |-> 1, JOINTS_0 |-> 3,
                     WEIGHTS_0 |-> 4],
     indices |-> 2]

BaseMeshes == << [primitives |-> <<BasePrimitive>>] >>

BaseNodes ==
    << [translation |-> <<1, 2, 0>>, children |-> <<1>>],
       [rotation |-> <<0, 1, 0, 0>>, children |-> <<2>>],
       [scale |-> <<2, 2, 2>>] >>

Channel(n, p, s) == [target |-> [node |-> n, path |-> p], sampler |-> s]

BaseSamplers ==
    << [input |-> 5, output |-> 7],
       [input |-> 6, output |-> 8],
       [input |-> 6, output |-> 7] >>

Animation(chs) == [channels |-> chs, samplers |-> BaseSamplers]

BaseAnimations ==
    << Animation(<<Channel(0, "translation", 2), Channel(1, "rotation", 1)>>) >>

Skin(js) == [joints |-> js, inverseBindMatrices |-> 9]

BaseSkins == << Skin(<<0, 1>>) >>

Doc(meshes, accessors, bufferViews, nodes, animations, skins) ==
    [meshes |-> meshes, accessors |-> accessors, bufferViews |-> bufferViews,
     buffers |-> << [uri |-> "guy.bin"] >>, nodes |-> nodes,
     animations |-> animations, skins |-> skins]

BaseDoc == Doc(BaseMeshes, BaseAccessors, BaseBufferViews, BaseNodes,
               BaseAnimations, BaseSkins)

Input(doc, disk) == [gltf |-> doc, disk |-> disk]

\* How many meshes, primitives, animations and skins the document holds.
StructureInputs ==
    { Input(Doc([j \in 1..nm |-> [primitives |-> [q \in 1..np |-> BasePrimitive]]],
                BaseAccessors, BaseBufferViews, BaseNodes,
                [j \in 1..na |-> BaseAnimations[1]],
                [j \in 1..ns |-> IF j = 1 THEN BaseSkins[1] ELSE Skin(<<7>>)]),
            BaseDisk) :
        nm \in 0..MaxMeshes, np \in 0..MaxPrims, na \in 0..MaxAnims,
        ns \in 0..MaxSkins }

\* One accessor declares any componentType and any shape type.
AccessorInputs ==
    { Input(Doc(BaseMeshes,
                [BaseAccessors EXCEPT ![a] = Accessor(ct, t, a - 1, @.count)],
                BaseBufferViews, BaseNodes, BaseAnimations, BaseSkins),
            BaseDisk) :
        a \in 1..Len(BaseAccessors), ct \in ComponentTypes, t \in ShapeTypes }

\* The buffer file is missing, or holds any number of bytes; the POSITION
\* bufferView declares any offset and length, negative ones too.
BufferInputs ==
    { Input(BaseDoc, d) :
        d \in {<<>>} \cup {"guy.bin" :> BufferBytes(n) : n \in 0..MaxBufLen} }
    \cup
    { Input(Doc(BaseMeshes, BaseAccessors,
                [BaseBufferViews EXCEPT ![1] =
                    [buffer |-> 0, byteOffset |-> o, byteLength |-> l]],
                BaseNodes, BaseAnimations, BaseSkins),
            "guy.bin" :> BufferBytes(n)) :
        o \in -1..2, l \in -2..3, n \in {1, MaxBufLen} }

\* The node graph: up to MaxNodes nodes and MaxEdges (parent, child) edges,
\* a node's children in the order of its edges.  A child is any integer
\* from -1 to the node count: a node index, -1, or one past the last node.
ChildrenOf(edges, i) ==
    LET mine == SelectSeq(edges, LAMBDA e : e[1] = i)
    IN  [j \in 1..Len(mine) |-> mine[j][2]]

GraphNode(edges, i) ==
    IF ChildrenOf(edges, i) = <<>> THEN EmptyDict
    ELSE [children |-> ChildrenOf(edges, i)]

GraphInputs ==
    { Input(Doc(BaseMeshes, BaseAccessors, BaseBufferViews,
                [j \in 1..n |-> GraphNode(edges, j - 1)],
                BaseAnimations, BaseSkins),
            BaseDisk) :
        <<n, edges>> \in UNION { {n} \X SeqsUpTo((0..n-1) \X (-1..n), MaxEdges) :
                                 n \in 0..MaxNodes } }

\* The transform arrays a node carries: none, all three, a translation of
\* two floats, a rotation of three and a scale of four.
NodeTemplates ==
    { EmptyDict,
      [translation |-> <<1, 2, -1>>, rotation |-> <<0, 1, 0, 0>>,
       scale |-> <<2, 1, 2>>],
      [translation |-> <<1, 2>>],
      [rotation |-> <<0, 0, 1>>, scale |-> <<1, 1, 1, 1>>] }

TransformInputs ==
    { Input(Doc(BaseMeshes, BaseAccessors, BaseBufferViews, nodes,
                BaseAnimations, BaseSkins),
            BaseDisk) :
        nodes \in SeqsUpTo(NodeTemplates, MaxNodes) }

\* The channels of the animation: any target node, path and sampler.
AnimationInputs ==
    { Input(Doc(BaseMeshes, BaseAccessors, BaseBufferViews, BaseNodes,
                <<Animation(chs)>>, BaseSkins),
            BaseDisk) :
        chs \in SeqsUpTo({Channel(n, p, s) : n \in 0..1, p \in Paths, s \in 0..2},
                         MaxChannels) }

\* The joints of the skin.
SkinInputs ==
    { Input(Doc(BaseMeshes, BaseAccessors, BaseBufferViews, BaseNodes,
                BaseAnimations, <<Skin(js)>>),
            BaseDisk) :
        js \in SeqsUpTo({0, 5, 7}, MaxJoints) }

Inputs == StructureInputs \cup AccessorInputs \cup BufferInputs
          \cup GraphInputs \cup TransformInputs \cup AnimationInputs
          \cup SkinInputs

(* ------------------------------ the state ----------------------------- *)
VARIABLES
    gltf,     \* the parsed document (main: gltf, line 37)
    files,    \* the directory src/assets/meshes: file name -> bytes
    pc,       \* where main is
    k,        \* index of the next mesh attribute / animation channel
    parents,  \* main: parents (line 57)
    ni,       \* main: i of the loop of line 58
    ci,       \* position in node ni's children (loop of line 59)
    err       \* the exception that ended the run, NoErr if none

vars == <<gltf, files, pc, k, parents, ni, ci, err>>

\* open(path, "wb") followed by writes of `content` and the close.
Write(disk, path, content) == (path :> content) @@ disk

(* ------------------------ dump_accessor_to_f -------------------------- *)
\* What dump_accessor_to_f appends to its output, or the exception it
\* raises before appending anything.
DumpAccessorToF(g, disk, accessor_idx, expected_component_type, expected_type) ==
    LET position_attribute == At(g.accessors, accessor_idx)
        buffer_view == At(g.bufferViews, position_attribute.bufferView)
        offs == buffer_view.byteOffset
        length == buffer_view.byteLength
        uri == At(g.buffers, buffer_view.buffer).uri
    IN  IF position_attribute.componentType # expected_component_type
        THEN [err |-> Raise("AssertionError", 7), data |-> <<>>]
        ELSE IF position_attribute.type # expected_type
        THEN [err |-> Raise("AssertionError", 8), data |-> <<>>]
        ELSE IF uri \notin DOMAIN disk
        THEN [err |-> Raise("FileNotFoundError", 16), data |-> <<>>]
        ELSE IF ReadError(offs, length) = "OSError"
        THEN [err |-> Raise("OSError", 17), data |-> <<>>]
        ELSE IF ReadError(offs, length) = "ValueError"
        THEN [err |-> Raise("ValueError", 18), data |-> <<>>]
        ELSE [err |-> NoErr, data |-> ReadAt(disk[uri], offs, length)]

\* dump_accessor: the file is opened (created or truncated) first; an
\* exception of dump_accessor_to_f leaves it as it then is.
DumpAccessor(g, disk, accessor_idx, path, expected_component_type, expected_type) ==
    LET opened == Write(disk, path, <<>>)
        r == DumpAccessorToF(g, opened, accessor_idx, expected_component_type,
                             expected_type)
    IN  [err |-> r.err, disk |-> Write(opened, path, r.data)]

(* -------------------------------- main -------------------------------- *)
\* Mutant of StructureError: the assert on the primitives is missing.
StructureErrorMeshOnly(g) ==
    IF Len(g.meshes) # 1 THEN Raise("AssertionError", 40) ELSE NoErr

\* Lines 39-44: the two structural asserts.
StructureError(g) ==
    IF Len(g.meshes) # 1 THEN Raise("AssertionError", 40)
    ELSE IF Len(At(g.meshes, 0).primitives) # 1 THEN Raise("AssertionError", 44)
    ELSE NoErr

\* Lines 49-53: the five dumps, in order.
MeshAccessor(g, j) ==
    LET primitive == At(At(g.meshes, 0).primitives, 0)
    IN  CASE j = 0 -> primitive.attributes.POSITION
          [] j = 1 -> primitive.attributes.NORMAL
          [] j = 2 -> primitive.indices
          [] j = 3 -> primitive.attributes.JOINTS_0
          [] j = 4 -> primitive.attributes.WEIGHTS_0

MeshComponentType(j) ==
    CASE j = 2 -> UNSIGNED_SHORT [] j = 3 -> UNSIGNED_BYTE [] OTHER -> FLOAT

MeshType(j) ==
    CASE j \in {0, 1} -> "VEC3" [] j = 2 -> "SCALAR" [] OTHER -> "VEC4"

Fail(e) == /\ pc' = "failed"
           /\ err' = e

Load ==
    /\ pc = "load"
    /\ IF StructureError(gltf) # NoErr
       THEN Fail(StructureError(gltf))
       ELSE pc' = "mesh" /\ err' = err
    /\ UNCHANGED <<gltf, files, k, parents, ni, ci>>

DumpMesh ==
    /\ pc = "mesh"
    /\ LET r == DumpAccessor(gltf, files, MeshAccessor(gltf, k), MeshFiles[k + 1],
                             MeshComponentType(k), MeshType(k))
       IN  /\ files' = r.disk
           /\ IF r.err # NoErr
              THEN Fail(r.err) /\ k' = k
              ELSE /\ k' = IF k = 4 THEN 0 ELSE k + 1
                   /\ pc' = IF k = 4 THEN "parents_init" ELSE "mesh"
                   /\ err' = err
    /\ UNCHANGED <<gltf, parents, ni, ci>>

\* Line 57.
InitParents ==
    /\ pc = "parents_init"
    /\ parents' = [j \in 1..Len(gltf.nodes) |-> NoParent]
    /\ ni' = 0
    /\ ci' = 0
    /\ pc' = "parents"
    /\ UNCHANGED <<gltf, files, k, err>>

\* Line 60: parents[child] = i.
SetParent(ps, child, i) == [ps EXCEPT ![Pos(ps, child)] = i]

\* Lines 58-60, one assignment (or one advance of the outer loop) a step.
ParentStep ==
    /\ pc = "parents"
    /\ ni < Len(gltf.nodes)
    /\ LET children == Get(At(gltf.nodes, ni), "children", <<>>)
       IN  IF ci < Len(children) /\ ~InRange(parents, At(children, ci))
           THEN /\ Fail(Raise("IndexError", 60))
                /\ UNCHANGED <<parents, ci, ni>>
           ELSE IF ci < Len(children)
           THEN /\ parents' = SetParent(parents, At(children, ci), ni)
                /\ ci' = ci + 1
                /\ ni' = ni
                /\ UNCHANGED <<pc, err>>
           ELSE /\ parents' = parents
                /\ ci' = 0
                /\ ni' = ni + 1
                /\ UNCHANGED <<pc, err>>
    /\ UNCHANGED <<gltf, files, k>>

ParentsDone ==
    /\ pc = "parents"
    /\ ni = Len(gltf.nodes)
    /\ pc' = "nodes"
    /\ UNCHANGED <<gltf, files, k, parents, ni, ci, err>>

\* Lines 65-72: one node's record.
NodeRecord(node, parent) ==
    PackFs(Get(node, "translation", <<0, 0, 0>>))
    \o PackFs(Get(node, "rotation", <<0, 0, 0, 1>>))
    \o PackFs(Get(node, "scale", <<1, 1, 1>>))
    \o PackI(parent)

\* Lines 63-72.
WriteNodes ==
    /\ pc = "nodes"
    /\ files' = Write(files, "nodes.bin",
                      Flatten([j \in 1..Len(gltf.nodes) |->
                                  NodeRecord(gltf.nodes[j], parents[j])]))
    /\ pc' = "animations"
    /\ UNCHANGED <<gltf, k, parents, ni, ci, err>>

\* Lines 74-75.
CheckAnimations ==
    /\ pc = "animations"
    /\ IF Len(gltf.animations) # 1
       THEN Fail(Raise("AssertionError", 75))
       ELSE pc' = "channels" /\ err' = err
    /\ k' = 0
    /\ UNCHANGED <<gltf, files, parents, ni, ci>>

\* Mutant of animationTypeVal: any other path gets the next enum value.
animationTypeValOpen(s) ==
    IF s = "translation" THEN 0
    ELSE IF s = "rotation" THEN 1
    ELSE IF s = "scale" THEN 2
    ELSE 3

animationTypeVal(s) ==
    IF s = "translation" THEN 0
    ELSE IF s = "rotation" THEN 1
    ELSE IF s = "scale" THEN 2
    ELSE NoneVal

\* Mutant of TimesAccessor: the first sampler's input, whatever the channel
\* names.
TimesAccessorFirstSampler(animation, channel) ==
    At(animation.samplers, 0).input

\* Lines 84-87: the accessor of the keyframe times of a channel.
TimesAccessor(animation, channel) ==
    At(animation.samplers, channel.sampler).input

\* Line 88.
DataAccessor(animation, channel) ==
    At(animation.samplers, channel.sampler).output

\* Lines 80-93 for one channel: the bytes written to animations_<i>.bin when
\* the file is closed, and the exception that closed it (NoErr: none).
ChannelBin(g, disk, animation, channel) ==
    LET node == PackI(channel.target.node)
        tv == animationTypeVal(channel.target.path)
        times_accessor == TimesAccessor(animation, channel)
        data_accessor == DataAccessor(animation, channel)
        head == node \o PackI(tv) \o PackI(At(g.accessors, times_accessor).count)
        times == DumpAccessorToF(g, disk, times_accessor, FLOAT, "SCALAR")
        expected_type == IF channel.target.path = "rotation" THEN "VEC4" ELSE "VEC3"
        data == DumpAccessorToF(g, disk, data_accessor, FLOAT, expected_type)
    IN  IF ~CanPackI(tv)
        THEN [err |-> Raise("struct.error", 82), bytes |-> node]
        ELSE IF times.err # NoErr
        THEN [err |-> times.err, bytes |-> head]
        ELSE IF data.err # NoErr
        THEN [err |-> data.err, bytes |-> head \o times.data]
        ELSE [err |-> NoErr, bytes |-> head \o times.data \o data.data]

\* Lines 79-93, one channel a step.
PackChannel ==
    /\ pc = "channels"
    /\ k < Len(gltf.animations[1].channels)
    /\ LET r == ChannelBin(gltf, Write(files, AnimationFile(k), <<>>),
                           gltf.animations[1], At(gltf.animations[1].channels, k))
       IN  /\ files' = Write(files, AnimationFile(k), r.bytes)
           /\ IF r.err # NoErr
              THEN Fail(r.err) /\ k' = k
              ELSE pc' = pc /\ err' = err /\ k' = k + 1
    /\ UNCHANGED <<gltf, parents, ni, ci>>

ChannelsDone ==
    /\ pc = "channels"
    /\ k = Len(gltf.animations[1].channels)
    /\ pc' = "skin"
    /\ UNCHANGED <<gltf, files, k, parents, ni, ci, err>>

\* Mutant of JointHeader: the joints are written last to first.
JointHeaderReversed(skin) ==
    PackI(Len(skin.joints))
    \o Flatten([j \in 1..Len(skin.joints) |->
                   PackI(skin.joints[Len(skin.joints) + 1 - j])])

\* Lines 98-100: the joint count and the joints.
JointHeader(skin) ==
    PackI(Len(skin.joints))
    \o Flatten([j \in 1..Len(skin.joints) |-> PackI(skin.joints[j])])

\* Lines 95-101: the bytes written to joint_info.bin when it is closed, and
\* the exception that closed it.
JointInfoBin(g, disk) ==
    LET ibm == DumpAccessorToF(g, disk, At(g.skins, 0).inverseBindMatrices,
                               FLOAT, "MAT4")
    IN  IF g.skins = <<>>
        THEN [err |-> Raise("IndexError", 98), bytes |-> <<>>]
        ELSE IF ibm.err # NoErr
        THEN [err |-> ibm.err, bytes |-> JointHeader(At(g.skins, 0))]
        ELSE [err |-> NoErr, bytes |-> JointHeader(At(g.skins, 0)) \o ibm.data]

PackSkin ==
    /\ pc = "skin"
    /\ LET r == JointInfoBin(gltf, Write(files, "joint_info.bin", <<>>))
       IN  /\ files' = Write(files, "joint_info.bin", r.bytes)
           /\ IF r.err # NoErr
              THEN Fail(r.err)
              ELSE pc' = "done" /\ err' = err
    /\ UNCHANGED <<gltf, k, parents, ni, ci>>

Init ==
    /\ \E in \in Inputs : gltf = in.gltf /\ files = in.disk
    /\ pc = "load"
    /\ k = 0
    /\ parents = <<>>
    /\ ni = 0
    /\ ci = 0
    /\ err = NoErr

Next ==
    \/ Load
    \/ DumpMesh
    \/ InitParents
    \/ ParentStep
    \/ ParentsDone
    \/ WriteNodes
    \/ CheckAnimations
    \/ PackChannel
    \/ ChannelsDone
    \/ PackSkin

Spec == Init /\ [][Next]_vars

(* ------------------------- reading the outputs ------------------------ *)
\* The unsigned value of four little-endian bytes (of values below 2^31).
U32(b) == b[1] + 256 * b[2] + 65536 * b[3] + 16777216 * b[4]

Word(f, j) == U32(SubSeq(f, 4 * j + 1, 4 * j + 4))

Outputs == OutputNames \cap DOMAIN files

ByteLength(g, a) == At(g.bufferViews, At(g.accessors, a).bufferView).byteLength

\* The bytes of the backing buffer file inside accessor a's bufferView.
RangeBytes(g, disk, a) ==
    LET bv == At(g.bufferViews, At(g.accessors, a).bufferView)
        content == disk[At(g.buffers, bv.buffer).uri]
    IN  [j \in 1..(Min(bv.byteOffset + bv.byteLength, Len(content)) - bv.byteOffset)
            |-> content[bv.byteOffset + j]]

\* Accessor a is what an extractor expecting (ct, t) accepts, its bufferView
\* declares a byte range, and its buffer file can be read.
Readable(g, disk, a, ct, t) ==
    /\ At(g.bufferViews, At(g.accessors, a).bufferView).byteOffset >= 0
    /\ At(g.bufferViews, At(g.accessors, a).bufferView).byteLength >= 0
    /\ At(g.accessors, a).componentType = ct
    /\ At(g.accessors, a).type = t
    /\ At(g.buffers, At(g.bufferViews, At(g.accessors, a).bufferView).buffer).uri
           \in DOMAIN disk

Supported(path) == path \in {"translation", "rotation", "scale"}

ValueType(path) == IF path = "rotation" THEN "VEC4" ELSE "VEC3"

Channels(g) == g.animations[1].channels

SamplerOf(g, ch) == At(g.animations[1].samplers, ch.sampler)

\* The document has the one mesh, one primitive, one animation and the skin
\* the extractors use.
Shaped(g) ==
    /\ Len(g.meshes) = 1
    /\ Len(g.meshes[1].primitives) = 1
    /\ Len(g.animations) = 1
    /\ g.skins # <<>>

\* The component type every extractor expects of each accessor it uses.
Expectations(g) ==
    {<<MeshAccessor(g, j), MeshComponentType(j)>> : j \in 0..4}
    \cup {<<SamplerOf(g, Channels(g)[c]).input, FLOAT>> : c \in DOMAIN Channels(g)}
    \cup {<<SamplerOf(g, Channels(g)[c]).output, FLOAT>> : c \in DOMAIN Channels(g)}
    \cup {<<g.skins[1].inverseBindMatrices, FLOAT>>}

ComponentTypeMismatch(g) ==
    /\ Shaped(g)
    /\ \E e \in Expectations(g) : At(g.accessors, e[1]).componentType # e[2]

Ended == pc \in {"done", "failed"}

\* Output file f holds everything the packer writes to it for this document.
Complete(g, disk, f) ==
    \/ \E j \in 0..4 :
          /\ f = MeshFiles[j + 1]
          /\ Readable(g, disk, MeshAccessor(g, j), MeshComponentType(j), MeshType(j))
          /\ disk[f] = RangeBytes(g, disk, MeshAccessor(g, j))
    \/ /\ f = "nodes.bin"
       /\ Len(parents) = Len(g.nodes)
       /\ disk[f] = Flatten([j \in 1..Len(g.nodes) |->
                                NodeRecord(g.nodes[j], parents[j])])
    \/ \E c \in DOMAIN Channels(g) :
          LET ch == Channels(g)[c]
              smp == SamplerOf(g, ch)
          IN  /\ f = AnimationFile(c - 1)
              /\ Supported(ch.target.path)
              /\ Readable(g, disk, smp.input, FLOAT, "SCALAR")
              /\ Readable(g, disk, smp.output, FLOAT, ValueType(ch.target.path))
              /\ Len(disk[f]) = 12 + Len(RangeBytes(g, disk, smp.input))
                                   + Len(RangeBytes(g, disk, smp.output))
    \/ /\ f = "joint_info.bin"
       /\ g.skins # <<>>
       /\ Readable(g, disk, g.skins[1].inverseBindMatrices, FLOAT, "MAT4")
       /\ Len(disk[f]) = 4 + 4 * Len(g.skins[1].joints)
                           + Len(RangeBytes(g, disk, g.skins[1].inverseBindMatrices))

(* ------------------------------ the claims ---------------------------- *)

\* C1: when an accessor an extractor uses declares another componentType than
\* the extractor expects, the run fails on the type check and, once ended,
\* has left no output file.
C1_TypeMismatchLeavesNoOutput ==
    (Ended /\ ComponentTypeMismatch(gltf)) =>
        /\ pc = "failed"
        /\ err = Raise("AssertionError", 7)
        /\ Outputs = {}

\* The loop of lines 58-60 has run over all nodes.
ParentsBuilt ==
    \/ pc = "parents" /\ ni = Len(gltf.nodes)
    \/ pc \in {"nodes", "animations", "channels", "skin", "done"}
    \/ pc = "failed" /\ "nodes.bin" \in DOMAIN files

\* C2: once the loop of lines 58-60 has run over all nodes, every parent
\* entry is the sentinel or the index of a node that lists the entry's node
\* among its children.
C2_ParentsWellFormed ==
    ParentsBuilt =>
        /\ Len(parents) = Len(gltf.nodes)
        /\ \A i \in 0..Len(gltf.nodes) - 1 :
              \/ At(parents, i) = NoParent
              \/ /\ At(parents, i) \in 0..Len(gltf.nodes) - 1
                 /\ \E c \in DOMAIN Get(At(gltf.nodes, At(parents, i)), "children", <<>>) :
                       At(gltf.nodes, At(parents, i)).children[c] = i

\* C3: a run that ends in a failure leaves no output file partially written:
\* every output file there is holds its complete contents.
C3_NoPartialFileOnFailure ==
    pc = "failed" => \A f \in Outputs : Complete(gltf, files, f)

\* C4: a document without exactly one mesh of exactly one primitive fails on
\* the structural asserts, and no output file has been touched.
C4_StructureCheckedFirst ==
    (Len(gltf.meshes) # 1 \/ Len(gltf.meshes[1].primitives) # 1) =>
        /\ pc \in {"load", "failed"}
        /\ pc = "failed" => err \in {Raise("AssertionError", 40),
                                     Raise("AssertionError", 44)}
        /\ Outputs = {}

C4_Witness ==
    /\ pc = "failed"
    /\ Len(gltf.meshes) = 1
    /\ Len(gltf.meshes[1].primitives) = 2
    /\ err = Raise("AssertionError", 44)
    /\ Outputs = {}

\* C5: every accessor read that passes validation appends as many bytes as
\* its bufferView declares, whatever the length of the buffer file.
C5_ReadLengthIsByteLength ==
    /\ \A j \in 0..4 :
          ( /\ StructureError(gltf) = NoErr
            /\ MeshFiles[j + 1] \in DOMAIN files
            /\ Readable(gltf, files, MeshAccessor(gltf, j), MeshComponentType(j),
                        MeshType(j)) )
          => Len(files[MeshFiles[j + 1]]) = ByteLength(gltf, MeshAccessor(gltf, j))
    /\ pc = "done" =>
          /\ \A c \in DOMAIN Channels(gltf) :
                Len(files[AnimationFile(c - 1)]) =
                    12 + ByteLength(gltf, SamplerOf(gltf, Channels(gltf)[c]).input)
                       + ByteLength(gltf, SamplerOf(gltf, Channels(gltf)[c]).output)
          /\ Len(files["joint_info.bin"]) =
                4 + 4 * Len(gltf.skins[1].joints)
                  + ByteLength(gltf, gltf.skins[1].inverseBindMatrices)

\* The closed enumeration of section 4.4.
PathEnum(path) ==
    CASE path = "translation" -> 0 [] path = "rotation" -> 1 [] path = "scale" -> 2

\* C6: with one animation, the channel loop leaves exactly one file
\* animations_<i>.bin per channel i, beginning with the channel's target
\* node, the enum of its path (translation 0, rotation 1, scale 2) and the
\* element count of the input accessor of the sampler the channel names.
C6_ChannelHeaders ==
    pc \in {"skin", "done"} =>
        /\ Len(gltf.animations) = 1
        /\ \A i \in 0..4 :
              /\ AnimationFile(i) \in DOMAIN files <=> i < Len(Channels(gltf))
              /\ i < Len(Channels(gltf)) =>
                    LET f == files[AnimationFile(i)]
                        ch == At(Channels(gltf), i)
                    IN  /\ Len(f) >= 12
                        /\ Word(f, 0) = ch.target.node
                        /\ Word(f, 1) = PathEnum(ch.target.path)
                        /\ Word(f, 2) = At(gltf.accessors, SamplerOf(gltf, ch).input).count

\* Channel 0: node 0, translation; channel 1: node 1, rotation; channel 0
\* names sampler 2, whose input has another count than sampler 0's.
C6_Witness ==
    /\ pc = "done"
    /\ Channels(gltf) = <<Channel(0, "translation", 2), Channel(1, "rotation", 1)>>
    /\ SubSeq(files["animations_0.bin"], 1, 12) = <<0,0,0,0, 0,0,0,0, 3,0,0,0>>
    /\ SubSeq(files["animations_1.bin"], 1, 12) = <<1,0,0,0, 1,0,0,0, 3,0,0,0>>

\* C7: a channel whose path is none of translation, rotation, scale stops the
\* run with the packing error of line 82: no enum is written for it, and
\* neither a later channel's file nor joint_info.bin is ever opened.
C7_UnsupportedPathStops ==
    Len(gltf.animations) = 1 =>
        \A i \in 0..Len(Channels(gltf)) - 1 :
            ~Supported(At(Channels(gltf), i).target.path) =>
                /\ pc \notin {"skin", "done"}
                /\ pc = "channels" => k <= i
                /\ AnimationFile(i) \in DOMAIN files =>
                      /\ Len(files[AnimationFile(i)]) = 4
                      /\ pc = "failed"
                      /\ err = Raise("struct.error", 82)
                /\ \A j \in i + 1..4 : AnimationFile(j) \notin DOMAIN files
                /\ "joint_info.bin" \notin DOMAIN files

C7_Witness ==
    /\ pc = "failed"
    /\ err = Raise("struct.error", 82)
    /\ k = 1
    /\ Len(Channels(gltf)) = 2
    /\ Channels(gltf)[2].target.path = "weights"
    /\ files["animations_1.bin"] = PackI(Channels(gltf)[2].target.node)
    /\ "animations_0.bin" \in DOMAIN files

\* C8: after a successful run joint_info.bin is the joint count of the first
\* skin, its joints in order, and the bytes of the inverse-bind-matrices
\* accessor (float32 MAT4), and nothing else.
C8_JointInfoLayout ==
    pc = "done" =>
        LET f == files["joint_info.bin"]
            skin == gltf.skins[1]
            n == Len(skin.joints)
            bv == At(gltf.bufferViews,
                     At(gltf.accessors, skin.inverseBindMatrices).bufferView)
            buf == files[At(gltf.buffers, bv.buffer).uri]
            matrices == SubSeq(buf, bv.byteOffset + 1,
                               Min(bv.byteOffset + bv.byteLength, Len(buf)))
        IN  /\ At(gltf.accessors, skin.inverseBindMatrices).componentType = FLOAT
            /\ At(gltf.accessors, skin.inverseBindMatrices).type = "MAT4"
            /\ Len(f) = 4 + 4 * n + Len(matrices)
            /\ Word(f, 0) = n
            /\ \A j \in 1..n : Word(f, j) = skin.joints[j]
            /\ SubSeq(f, 4 * n + 5, Len(f)) = matrices

C8_Witness ==
    /\ pc = "done"
    /\ gltf.skins[1].joints = <<5, 7>>
    /\ files["joint_info.bin"] = <<2,0,0,0, 5,0,0,0, 7,0,0,0, 20, 21>>

\* C9: the loop never gives a second parent to a child that already has one:
\* an assignment to an entry that is not the sentinel ends the run instead.
C9_NoSecondParent ==
    [][ ( /\ pc = "parents"
          /\ ni < Len(gltf.nodes)
          /\ ci < Len(Get(At(gltf.nodes, ni), "children", <<>>))
          /\ InRange(parents, At(At(gltf.nodes, ni).children, ci))
          /\ At(parents, At(At(gltf.nodes, ni).children, ci)) # NoParent )
        => pc' = "failed" ]_vars

\* C10: nodes.bin is one record of 11 32-bit fields (44 bytes) per node, in
\* array order: translation, rotation, scale (each the node's own or the
\* default), parent.
C10_FixedStrideRecords ==
    "nodes.bin" \in DOMAIN files =>
        /\ Len(files["nodes.bin"]) = 44 * Len(gltf.nodes)
        /\ \A i \in 0..Len(gltf.nodes) - 1 :
              LET node == At(gltf.nodes, i)
                  rec == SubSeq(files["nodes.bin"], 44 * i + 1, 44 * i + 44)
              IN  /\ "translation" \notin DOMAIN node =>
                        SubSeq(rec, 1, 12) = <<0,0,0,0, 0,0,0,0, 0,0,0,0>>
                  /\ "rotation" \notin DOMAIN node =>
                        SubSeq(rec, 13, 28) = <<0,0,0,0, 0,0,0,0, 0,0,0,0, 0,0,128,63>>
                  /\ "scale" \notin DOMAIN node =>
                        SubSeq(rec, 29, 40) = <<0,0,128,63, 0,0,128,63, 0,0,128,63>>
                  /\ SubSeq(rec, 41, 44) = PackI(At(parents, i))

====
